---- MODULE Spec2Model ----
(***************************************************************************)
(* The /transcribe endpoint of yt-transcription-api (src/app.py) behind    *)
(* its authentication wrapper (src/auth.py).                               *)
(*                                                                         *)
(* A Python string is a sequence of one-character strings.  A string       *)
(* literal of the source that the program never looks inside (an error     *)
(* message, the text of an exception) is one element of such a sequence.   *)
(* Python's None is the one-element sequence None below, which no string   *)
(* of characters equals; the empty string is <<>>.                         *)
(***************************************************************************)
EXTENDS Integers, Sequences, FiniteSets, TLC

\* ------------------------------------------------------------------ bounds

\* Requests that may be in flight at once.
MaxRequests == 2
\* Pieces an Authorization header is put together from.
MaxHeaderPieces == 3
\* Pieces a URL is put together from.
MaxUrlPieces == 4
\* Caption entries of a video.
MaxEntries == 2
\* The slice length of improve_text_with_gpt4 (4096 in src/app.py:91),
\* scaled down so that texts of a few characters span several chunks.
ChunkSize == 2

\* ---------------------------------------------------------------- strings

None == <<"None">>
Pending == <<"Pending">>

\* Python truthiness of an optional string: None and '' are falsy.
Truthy(x) == x # None /\ x # <<>>

RECURSIVE Flatten(_)
Flatten(ss) == IF ss = <<>> THEN <<>> ELSE Head(ss) \o Flatten(Tail(ss))

\* All sequences over S of length 0..n.
SeqsUpTo(S, n) == UNION {[1..k -> S] : k \in 0..n}

\* sep.join(parts)
RECURSIVE Join(_, _)
Join(parts, sep) ==
    IF parts = <<>> THEN <<>>
    ELSE IF Len(parts) = 1 THEN parts[1]
    ELSE parts[1] \o sep \o Join(Tail(parts), sep)

\* s.find(sep): the first index where sep occurs in s, 0 when it does not.
Find(s, sep) ==
    LET hits == {i \in 1..(Len(s) - Len(sep) + 1) : SubSeq(s, i, i + Len(sep) - 1) = sep}
    IN IF hits = {} THEN 0 ELSE CHOOSE i \in hits : \A j \in hits : i <= j

\* s.split(sep) for a non-empty sep
RECURSIVE Split(_, _)
Split(s, sep) ==
    LET i == Find(s, sep)
    IN IF i = 0 THEN <<s>>
       ELSE <<SubSeq(s, 1, i - 1)>> \o Split(SubSeq(s, i + Len(sep), Len(s)), sep)

\* ------------------------------------------------------------- src/auth.py

BearerPrefix == <<"B", "e", "a", "r", "e", "r", " ">>

\* auth_header.split("Bearer ")[-1]
BearerSplitLast(auth_header) ==
    LET parts == Split(auth_header, BearerPrefix) IN parts[Len(parts)]

\* The condition of line 10 under which the wrapper answers 401.
wrapper_rejects(auth_header, secret_code) ==
    \/ ~Truthy(auth_header)
    \/ BearerSplitLast(auth_header) # secret_code

\* -------------------------------------------------- src/app.py: get_youtube_id

IdLen == 11

\* The character class [0-9A-Za-z_-]
TokenChars ==
    {"0", "1", "2", "3", "4", "5", "6", "7", "8", "9",
     "A", "B", "C", "D", "E", "F", "G", "H", "I", "J", "K", "L", "M",
     "N", "O", "P", "Q", "R", "S", "T", "U", "V", "W", "X", "Y", "Z",
     "a", "b", "c", "d", "e", "f", "g", "h", "i", "j", "k", "l", "m",
     "n", "o", "p", "q", "r", "s", "t", "u", "v", "w", "x", "y", "z",
     "_", "-"}

\* Length of the marker (?:v=|\/) matched at position i of url, 0 if none.
MarkerAt(url, i) ==
    IF i + 1 <= Len(url) /\ url[i] = "v" /\ url[i + 1] = "=" THEN 2
    ELSE IF i <= Len(url) /\ url[i] = "/" THEN 1
    ELSE 0

\* The pattern (?:v=|\/)([0-9A-Za-z_-]{11}).* matches at position i.
MatchAt(url, i) ==
    LET m == MarkerAt(url, i)
    IN /\ m > 0
       /\ i + m + IdLen - 1 <= Len(url)
       /\ \A k \in (i + m)..(i + m + IdLen - 1) : url[k] \in TokenChars

\* group(1) of the match at position i.
GroupAt(url, i) ==
    LET m == MarkerAt(url, i) IN SubSeq(url, i + m, i + m + IdLen - 1)

MatchPositions(url) == {i \in 1..Len(url) : MatchAt(url, i)}

\* A search that reports the last match instead of the first.
get_youtube_id_last(url) ==
    LET hits == MatchPositions(url)
    IN IF hits = {} THEN None
       ELSE GroupAt(url, CHOOSE i \in hits : \A j \in hits : j <= i)

\* re.search scans from the left and stops at the first position that matches.
get_youtube_id(url) ==
    LET hits == MatchPositions(url)
    IN IF hits = {} THEN None
       ELSE GroupAt(url, CHOOSE i \in hits : \A j \in hits : i <= j)

\* ------------------------------------------ src/app.py: improve_text_with_gpt4

\* [text[i:i + 4096] for i in range(0, len(text), 4096)]
Chunks(text) ==
    LET n == (Len(text) + ChunkSize - 1) \div ChunkSize
    IN [k \in 1..n |->
           SubSeq(text, (k - 1) * ChunkSize + 1,
                  IF k * ChunkSize < Len(text) THEN k * ChunkSize ELSE Len(text))]

\* A gather that hands the results back in the order the calls completed.
gather_by_completion(results, done_order) ==
    [k \in 1..Len(done_order) |-> results[done_order[k]]]

\* What asyncio.gather hands back: the results in the order of the awaitables
\* passed to it, whatever the order they completed in.
gather(results, done_order) == results

\* The text of an exception raised by the completion service, str(e).
ServiceErrorText == "<service error text>"

\* What process_chunk returns for its chunk, by what the completion service
\* does: "ok" with a completion, "OpenAIError", or a response whose
\* choices[0].message.content is None.  (A response with no choices raises
\* IndexError out of process_chunk; see the action.)
process_chunk_result(outcome, completion) ==
    CASE outcome = "ok" -> completion
      [] outcome = "OpenAIError" -> <<"OpenAI API error: ", ServiceErrorText>>
      [] outcome = "content_none" -> None

\* The completions the service may give for a chunk: the text as it is, or
\* punctuated.
Completions(chunk) == {chunk, chunk \o <<".">>}

ChunkOutcomes == {"ok", "OpenAIError", "content_none", "no_choices"}

\* -------------------------------------------------- src/app.py: download_audio

OutputPath == <<"audio.mp3">>

\* A download_audio that hands back the path whether or not yt-dlp raised.
download_audio_always_path(outcome) == OutputPath

\* The return value of download_audio: the path, or None when yt-dlp raised.
download_audio_result(outcome) ==
    IF outcome = "ok" THEN OutputPath ELSE None

\* ------------------------------------------------- src/app.py: transcribe

\* client is an AsyncOpenAI (line 22), whose create methods are coroutine
\* functions.  Line 124 calls client.audio.transcriptions.create without
\* await: the call returns a coroutine object and sends nothing.
transcriptions_create(f) == [type |-> "coroutine", file |-> f]

\* An HTTP response: jsonify({key: body}), status
Resp(status, key, body) == [status |-> status, key |-> key, body |-> body]
NoResponse == Resp(0, "", <<>>)
Unauthorized == Resp(401, "error", <<"Unauthorized">>)
NoUrl == Resp(400, "error", <<"No YouTube URL provided">>)
InvalidUrl == Resp(400, "error", <<"Invalid YouTube URL">>)
AudioError == Resp(500, "error", <<"Could not retrieve audio for Whisper AI.">>)
UnexpectedError == Resp(500, "error", <<"An unexpected error occurred">>)

\* ------------------------------------------------------------------ state

Requests == 1..MaxRequests

VARIABLES
    secret_code,     \* os.getenv("SECRET_CODE"); None when unset
    auth_header,     \* per request: the Authorization header, None when absent
    url,             \* per request: request.json.get('url'), None when absent
    captions,        \* per request: what YouTubeTranscriptApi.get_transcript does for its video
    pc,              \* per request: where its handler stands
    video_id,        \* per request: local of transcribe
    transcript_text, \* per request: local of transcribe
    audio_file,      \* per request: local of transcribe
    file,            \* per request: whose audio open(audio_file) gave; 0 before the open
    chunks,          \* per request: local of improve_text_with_gpt4
    improved_chunks, \* per request: the result of each process_chunk task, Pending while in flight
    done_order,      \* per request: the chunk indices in the order their calls completed
    response,        \* per request: the HTTP response, NoResponse until sent
    call_log,        \* per request: the collaborators invoked, in order
    log,             \* per request: what the handler wrote to logger
    fs               \* the file audio.mp3 of the working directory: 0 absent, else the request whose audio it holds

inputs == <<secret_code, auth_header, url, captions>>
vars == <<secret_code, auth_header, url, captions, pc, video_id, transcript_text,
          audio_file, file, chunks, improved_chunks, done_order, response,
          call_log, log, fs>>

\* ----------------------------------------------------------------- inputs

Secret == <<"s">>
HeaderPieces == {BearerPrefix, <<"s">>, <<"x">>}
Headers == {Flatten(ps) : ps \in SeqsUpTo(HeaderPieces, MaxHeaderPieces)} \cup {None}
Secrets == {Secret, None}

Watch == <<"w", "a", "t", "c", "h">>
IdA == <<"d", "Q", "w", "4", "w", "9", "W", "g", "X", "c", "Q">>
IdB == <<"a", "t", "t", "r", "i", "b", "u", "t", "i", "o", "n">>
UrlPieces == {<<"/">>, <<"v", "=">>, <<"?">>, Watch, IdA, IdB}
Urls == {Flatten(ps) : ps \in SeqsUpTo(UrlPieces, MaxUrlPieces)} \cup {None}
\* /watch?v=dQw4w9WgXcQ
ValidUrl == <<"/">> \o Watch \o <<"?">> \o <<"v", "=">> \o IdA

EntryTexts == {<<>>, <<"a">>, <<"a", "b">>}
Entries(e) == [kind |-> "entries", entries |-> e]
TranscriptsDisabled == [kind |-> "TranscriptsDisabled", entries |-> <<>>]
OtherError == [kind |-> "error", entries |-> <<>>]
CaptionResults ==
    {Entries(e) : e \in SeqsUpTo(EntryTexts, MaxEntries)}
        \cup {TranscriptsDisabled, OtherError}
SmallCaptionResults == {Entries(<<<<"a">>>>), TranscriptsDisabled}

\* The state of the handlers when the requests in `active` have arrived.
Arrived(active) ==
    /\ pc = [r \in Requests |-> IF r \in active THEN "wrapper" ELSE "none"]
    /\ video_id = [r \in Requests |-> None]
    /\ transcript_text = [r \in Requests |-> None]
    /\ audio_file = [r \in Requests |-> None]
    /\ file = [r \in Requests |-> 0]
    /\ chunks = [r \in Requests |-> <<>>]
    /\ improved_chunks = [r \in Requests |-> <<>>]
    /\ done_order = [r \in Requests |-> <<>>]
    /\ response = [r \in Requests |-> NoResponse]
    /\ call_log = [r \in Requests |-> <<>>]
    /\ log = [r \in Requests |-> <<>>]
    /\ fs = 0

\* f with request 1 drawing its value from S and every other request at d.
OnlyFirst(S, d) == {[r \in Requests |-> IF r = 1 THEN x ELSE d] : x \in S}

\* One authorized request with a valid URL, over every caption result.
Init ==
    /\ secret_code = Secret
    /\ auth_header = [r \in Requests |-> BearerPrefix \o Secret]
    /\ url = [r \in Requests |-> ValidUrl]
    /\ captions \in OnlyFirst(CaptionResults, TranscriptsDisabled)
    /\ Arrived({1})

\* One request over every Authorization header and secret.
InitAuth ==
    /\ secret_code \in Secrets
    /\ auth_header \in OnlyFirst(Headers, None)
    /\ url = [r \in Requests |-> ValidUrl]
    /\ captions \in OnlyFirst(SmallCaptionResults, TranscriptsDisabled)
    /\ Arrived({1})

\* One authorized request over every URL.
InitUrl ==
    /\ secret_code = Secret
    /\ auth_header = [r \in Requests |-> BearerPrefix \o Secret]
    /\ url \in OnlyFirst(Urls, None)
    /\ captions \in OnlyFirst(SmallCaptionResults, TranscriptsDisabled)
    /\ Arrived({1})

\* Every request in flight at once, each authorized and with a valid URL.
InitConc ==
    /\ secret_code = Secret
    /\ auth_header = [r \in Requests |-> BearerPrefix \o Secret]
    /\ url = [r \in Requests |-> ValidUrl]
    /\ captions \in [Requests -> SmallCaptionResults]
    /\ Arrived(Requests)

\* ---------------------------------------------------------------- actions

Log(r, lines) == log' = [log EXCEPT ![r] = @ \o lines]

\* The handler of line 135: log the exception, answer the generic 500.
Caught(r, lines) ==
    /\ pc' = [pc EXCEPT ![r] = "done"]
    /\ response' = [response EXCEPT ![r] = UnexpectedError]
    /\ Log(r, lines \o <<"An unexpected error occurred">>)

\* return jsonify(...), status
Return(r, resp) ==
    /\ pc' = [pc EXCEPT ![r] = "done"]
    /\ response' = [response EXCEPT ![r] = resp]

Goto(r, label) ==
    /\ pc' = [pc EXCEPT ![r] = label]
    /\ UNCHANGED response

\* auth.py wrapper: answer 401, or call the handler.
wrapper(r) ==
    /\ pc[r] = "wrapper"
    /\ IF wrapper_rejects(auth_header[r], secret_code)
       THEN Return(r, Unauthorized)
       ELSE Goto(r, "transcribe")
    /\ UNCHANGED <<inputs, video_id, transcript_text, audio_file, file, chunks,
                   improved_chunks, done_order, call_log, log, fs>>

\* transcribe, lines 101-107: the two validations of the URL.
transcribe(r) ==
    /\ pc[r] = "transcribe"
    /\ IF ~Truthy(url[r])
       THEN /\ Return(r, NoUrl)
            /\ UNCHANGED video_id
       ELSE /\ video_id' = [video_id EXCEPT ![r] = get_youtube_id(url[r])]
            /\ IF ~Truthy(video_id'[r])
               THEN Return(r, InvalidUrl)
               ELSE Goto(r, "process_transcript")
    /\ UNCHANGED <<inputs, transcript_text, audio_file, file, chunks,
                   improved_chunks, done_order, call_log, log, fs>>

\* transcribe, lines 110-117: process_transcript and the test of its result.
\* An exception other than TranscriptsDisabled leaves process_transcript and
\* is caught at line 135.
process_transcript(r) ==
    /\ pc[r] = "process_transcript"
    /\ call_log' = [call_log EXCEPT ![r] = Append(@, "captions")]
    /\ IF captions[r].kind = "error"
       THEN /\ Caught(r, <<"Processing video">>)
            /\ UNCHANGED transcript_text
       ELSE /\ transcript_text' =
                   [transcript_text EXCEPT ![r] =
                       IF captions[r].kind = "entries"
                       THEN Join(captions[r].entries, <<" ">>)
                       ELSE None]
            /\ IF ~Truthy(transcript_text'[r])
               THEN /\ Goto(r, "download_audio")
                    /\ Log(r, <<"Processing video">>
                               \o (IF captions[r].kind = "entries" THEN <<>>
                                   ELSE <<"Transcript unavailable, fallback to Whisper.">>)
                               \o <<"Using Whisper AI">>)
               ELSE /\ Goto(r, "improve_text")
                    /\ Log(r, <<"Processing video">>)
    /\ UNCHANGED <<inputs, video_id, audio_file, file, chunks, improved_chunks,
                   done_order, fs>>

\* transcribe, lines 118-121: download_audio and the test of its result.
\* yt-dlp either writes this request's audio to audio.mp3 or raises.
download_audio(r) ==
    /\ pc[r] = "download_audio"
    /\ call_log' = [call_log EXCEPT ![r] = Append(@, "audio")]
    /\ \E outcome \in {"ok", "raise"} :
          /\ fs' = IF outcome = "ok" THEN r ELSE fs
          /\ audio_file' = [audio_file EXCEPT ![r] = download_audio_result(outcome)]
          /\ Log(r, IF outcome = "ok" THEN <<>> ELSE <<"Audio download failed">>)
          /\ IF ~Truthy(audio_file'[r])
             THEN Return(r, AudioError)
             ELSE Goto(r, "whisper")
    /\ UNCHANGED <<inputs, video_id, transcript_text, file, chunks,
                   improved_chunks, done_order>>

\* transcribe, lines 123-128: open the audio file, call the transcription
\* service, read the text of its response.  The response is a coroutine
\* object, which has no attribute text: AttributeError, caught at line 135.
whisper(r) ==
    /\ pc[r] = "whisper"
    /\ IF fs = 0
       THEN \* FileNotFoundError
            /\ Caught(r, <<>>)
            /\ UNCHANGED <<file, call_log, transcript_text>>
       ELSE /\ file' = [file EXCEPT ![r] = fs]
            /\ call_log' = [call_log EXCEPT ![r] = Append(@, "stt")]
            /\ LET resp == transcriptions_create(fs)
               IN IF resp.type = "Transcription"
                  THEN /\ transcript_text' = [transcript_text EXCEPT ![r] = resp.text]
                       /\ Goto(r, "improve_text")
                       /\ UNCHANGED log
                  ELSE /\ Caught(r, <<>>)
                       /\ UNCHANGED transcript_text
    /\ UNCHANGED <<inputs, video_id, audio_file, chunks, improved_chunks,
                   done_order, fs>>

\* improve_text_with_gpt4, lines 91-93: slice the text, create one
\* process_chunk task per slice and hand them all to asyncio.gather.
improve_text_with_gpt4(r) ==
    /\ pc[r] = "improve_text"
    /\ chunks' = [chunks EXCEPT ![r] = Chunks(transcript_text[r])]
    /\ improved_chunks' =
           [improved_chunks EXCEPT ![r] = [k \in 1..Len(chunks'[r]) |-> Pending]]
    /\ call_log' =
           [call_log EXCEPT ![r] = @ \o [k \in 1..Len(chunks'[r]) |-> "format"]]
    /\ Goto(r, "gather")
    /\ UNCHANGED <<inputs, video_id, transcript_text, audio_file, file,
                   done_order, log, fs>>

\* process_chunk, lines 76-86: the completion call of chunk i returns.  An
\* OpenAIError becomes the chunk's text; a response without choices raises
\* IndexError, which gather passes on to asyncio.run (whose shutdown cancels
\* the calls still in flight) and line 135 catches.
process_chunk(r, i) ==
    /\ pc[r] = "gather"
    /\ i \in 1..Len(chunks[r])
    /\ improved_chunks[r][i] = Pending
    /\ done_order' = [done_order EXCEPT ![r] = Append(@, i)]
    /\ \E outcome \in ChunkOutcomes :
          IF outcome = "no_choices"
          THEN /\ Caught(r, <<>>)
               /\ UNCHANGED improved_chunks
          ELSE /\ \E completion \in Completions(chunks[r][i]) :
                     improved_chunks' =
                         [improved_chunks EXCEPT ![r][i] =
                             process_chunk_result(outcome, completion)]
               /\ UNCHANGED <<pc, response, log>>
    /\ UNCHANGED <<inputs, video_id, transcript_text, audio_file, file, chunks,
                   call_log, fs>>

\* improve_text_with_gpt4, line 94, and transcribe, lines 131-133: gather
\* returns once every task has returned; ' '.join raises TypeError on a None
\* item, caught at line 135.
gather_returns(r) ==
    /\ pc[r] = "gather"
    /\ \A i \in 1..Len(chunks[r]) : improved_chunks[r][i] # Pending
    /\ LET results == gather(improved_chunks[r], done_order[r])
       IN IF \E k \in 1..Len(results) : results[k] = None
          THEN Caught(r, <<>>)
          ELSE /\ Return(r, Resp(200, "result", Join(results, <<" ">>)))
               /\ UNCHANGED log
    /\ UNCHANGED <<inputs, video_id, transcript_text, audio_file, file, chunks,
                   improved_chunks, done_order, call_log, fs>>

Next ==
    \E r \in Requests :
        \/ wrapper(r)
        \/ transcribe(r)
        \/ process_transcript(r)
        \/ download_audio(r)
        \/ whisper(r)
        \/ improve_text_with_gpt4(r)
        \/ \E i \in 1..Len(chunks[r]) : process_chunk(r, i)
        \/ gather_returns(r)

Spec == Init /\ [][Next]_vars
SpecAuth == InitAuth /\ [][Next]_vars
SpecUrl == InitUrl /\ [][Next]_vars
SpecConc == InitConc /\ [][Next]_vars

\* ----------------------------------------------------------------- claims

Count(lg, name) == Cardinality({k \in DOMAIN lg : lg[k] = name})
Has(lg, name) == \E k \in DOMAIN lg : lg[k] = name

\* The wrapper has decided request r.
Decided(r) == pc[r] \notin {"none", "wrapper"}
\* The URL validations of request r are over.
Validated(r) == pc[r] \notin {"none", "wrapper", "transcribe"}

\* The header is "Bearer " followed by a token, and the token it carries.
HasBearerToken(h) ==
    /\ h # None
    /\ Len(h) >= Len(BearerPrefix)
    /\ SubSeq(h, 1, Len(BearerPrefix)) = BearerPrefix
BearerToken(h) == SubSeq(h, Len(BearerPrefix) + 1, Len(h))

\* C1: a request whose Authorization header is absent, or whose bearer token
\* is not exactly the configured secret, is answered 401 {"error":
\* "Unauthorized"} and no pipeline stage runs for it.
C1_UnauthorizedRejected ==
    \A r \in Requests :
        (/\ Decided(r)
         /\ \/ auth_header[r] = None
            \/ HasBearerToken(auth_header[r]) /\ BearerToken(auth_header[r]) # secret_code)
        => /\ response[r] = Unauthorized
           /\ video_id[r] = None
           /\ call_log[r] = <<>>

\* C2: with captions disabled and the audio downloaded, the audio and the
\* speech-to-text collaborators are invoked once each, in that order, and the
\* request ends in 200.
C2_FallbackSucceeds ==
    \A r \in Requests :
        (/\ pc[r] = "done"
         /\ captions[r].kind = "TranscriptsDisabled"
         /\ Has(call_log[r], "audio")
         /\ ~Has(log[r], "Audio download failed"))
        => /\ SubSeq(call_log[r], 1, 3) = <<"captions", "audio", "stt">>
           /\ Count(call_log[r], "audio") = 1
           /\ Count(call_log[r], "stt") = 1
           /\ response[r].status = 200

\* C3: when the caption fetch returns a list of entries, whatever their
\* texts, the audio and speech-to-text collaborators are never invoked and a
\* 200 result is made from the single-space concatenation of the entries.
C3_CaptionsNeverFallBack ==
    \A r \in Requests :
        captions[r].kind = "entries"
        => /\ ~Has(call_log[r], "audio")
           /\ ~Has(call_log[r], "stt")
           /\ response[r].status = 200
                  => transcript_text[r] = Join(captions[r].entries, <<" ">>)

\* C4: when the audio download fails, the request ends with status 500 and
\* the audio-specific message, and neither the speech-to-text collaborator
\* nor the formatter is invoked.
C4_AudioFailureIsTerminal ==
    \A r \in Requests :
        Has(log[r], "Audio download failed")
        => /\ pc[r] = "done"
           /\ response[r] = AudioError
           /\ ~Has(call_log[r], "stt")
           /\ ~Has(call_log[r], "format")

C4_Witness ==
    \E r \in Requests :
        /\ Has(log[r], "Audio download failed")
        /\ call_log[r] = <<"captions", "audio">>
        /\ response[r].status = 500

\* C5: an exception caught at the top level gives the generic 500, and no
\* response body of any status carries the error text of an external service.
C5_NoServiceTextInBody ==
    \A r \in Requests :
        /\ Has(log[r], "An unexpected error occurred") => response[r] = UnexpectedError
        /\ ~Has(response[r].body, ServiceErrorText)

\* C6: a failing chunk-format call, whatever the failure, never fails the
\* request: once formatting has started the request ends in 200.
C6_ChunkFailureNeverFatal ==
    \A r \in Requests :
        (pc[r] = "done" /\ Has(call_log[r], "format")) => response[r].status = 200

\* C7: every chunk-format call is dispatched before any completes, the text
\* is assembled only after every call has returned, and it is the per-chunk
\* results joined with single spaces in chunk-index order whatever the order
\* of completion.
C7_AssemblyInChunkOrder ==
    \A r \in Requests :
        /\ done_order[r] # <<>> => Count(call_log[r], "format") = Len(chunks[r])
        /\ response[r].status = 200
              => /\ \A i \in 1..Len(chunks[r]) : improved_chunks[r][i] # Pending
                 /\ Len(done_order[r]) = Len(chunks[r])
                 /\ response[r].body =
                        Join([i \in 1..Len(chunks[r]) |-> improved_chunks[r][i]], <<" ">>)

C7_Witness ==
    \E r \in Requests :
        /\ response[r].status = 200
        /\ Len(done_order[r]) >= 2
        /\ done_order[r][1] > done_order[r][2]
        /\ improved_chunks[r][1] # improved_chunks[r][2]

\* text.split(): the words of a text.
NonEmpty(w) == w # <<>>
Words(text) == SelectSeq(Split(text, <<" ">>), NonEmpty)

\* C8: the chunks of a text split it on word boundaries only, none is longer
\* than the budget unless it is a single word, rejoined with single spaces
\* they give back the words of the text, and a text within the budget is one
\* chunk.
C8_ChunkerLosslessOnWords ==
    \A r \in Requests :
        Has(call_log[r], "format")
        => LET text == transcript_text[r]
               cs == chunks[r]
           IN /\ \A k \in 1..(Len(cs) - 1) :
                     cs[k][Len(cs[k])] = " " \/ cs[k + 1][1] = " "
              /\ \A k \in 1..Len(cs) :
                     Len(cs[k]) <= ChunkSize \/ Len(Words(cs[k])) = 1
              /\ Words(Join(cs, <<" ">>)) = Words(text)
              /\ Len(text) <= ChunkSize => Len(cs) = 1

\* C9: the audio a request's transcription stage opens is the audio that
\* request downloaded, never another request's.
C9_AudioScopedToRequest ==
    \A r \in Requests : file[r] # 0 => file[r] = r

====
